---- MODULE Spec2Model ----
(***************************************************************************)
(* The cryptographic accelerator driver of the CC2538 HAL: the AES/SHA-256 *)
(* unit (key store, CTR, CCM, SHA-256 streaming) and the PKA unit          *)
(* (big-number operations), as state machines over the registers the       *)
(* driver reads and writes.  The hardware is modelled by what the driver   *)
(* observes of it: ciphers, MACs and digests are symbolic values, and the  *)
(* PKA computes exact multi-word arithmetic on the vectors in PKA RAM.     *)
(* The two units share no register; the specifications below explore the  *)
(* calls made to one unit, to both, and the typestate of the handle.       *)
(***************************************************************************)
EXTENDS Integers, Sequences, FiniteSets, TLC

VARIABLES
    handle,   \* typestate of the Crypto handle (crypto/mod.rs)
    aes,      \* the AES/SHA register block and key store
    aesLast,  \* the last call made to the AES/SHA unit, with its buffers
    sha,      \* the local state of the sha256 call in progress
    pka,      \* the PKA register block
    pkaRam,   \* the PKA RAM, word index -> word
    bn,       \* the big-number call of the main caller, step by step
    isr       \* the last big-number call made by an interrupting caller

vars == <<handle, aes, aesLast, sha, pka, pkaRam, bn, isr>>

aesVars == <<aes, aesLast, sha>>
pkaVars == <<pka, pkaRam, bn, isr>>

Min(a, b) == IF a < b THEN a ELSE b
Max(a, b) == IF a > b THEN a ELSE b

----------------------------------------------------------------------------
(* Bounds of the model. *)

\* longest input handed to sha256, in bytes
MaxShaLen == 130

----------------------------------------------------------------------------
(* The AES/SHA unit's registers. *)

BLOCK_SIZE == 64
OUTPUT_LEN == 32
TwoTo16 == 65536

NoCtrl == [ctr |-> FALSE, ccm |-> FALSE, direction |-> FALSE, ctr_width |-> 0,
           ccm_l |-> 0, ccm_m |-> 0, save_context |-> FALSE]

NoDigest == [kind |-> "zero"]
NoTag == [kind |-> "zero"]

\* the eight 128-bit areas of the key store
KeyAreas == 0..7

\* the registers after the unit's reset is released
AesResetRegs ==
    [alg_sel |-> {}, aes_ctrl |-> NoCtrl, int_stat |-> {},
     key_size |-> 0, written_area |-> {}, key_ram |-> [a \in KeyAreas |-> 0],
     auth_length |-> 0, tag_out |-> NoTag]

is_aes_in_use == aes.alg_sel # {}

NoAesCall == [op |-> "none", ran |-> FALSE, ok |-> FALSE, done |-> TRUE]

\* what the next call will remember of the call before it
AfterOf(c) == <<c.op, c.ok>>

----------------------------------------------------------------------------
(* SHA-256 (crypto/sha2.rs).  Input bytes are tokens 1..n, so that a byte  *)
(* that is lost, repeated or moved shows; 0 is a byte of the zeroed carry  *)
(* buffer.  A digest is the symbolic value of the hash engine's state:     *)
(* the bytes absorbed, whether the padding was applied and with which      *)
(* length, and whether every non-final block was a whole block.            *)

Data(n) == [i \in 1..n |-> i]

\* the engine starts a new session on `block`
HashNew(block, pad, bits) ==
    [kind |-> "h", msg |-> block, padded |-> pad,
     bits |-> IF pad THEN bits ELSE <<0, 0>>,
     ok |-> pad \/ Len(block) = BLOCK_SIZE]

\* the engine continues from the digest written to its digest registers
HashResume(prev, block, pad, bits) ==
    IF prev.kind = "h"
    THEN [kind |-> "h", msg |-> prev.msg \o block, padded |-> pad,
          bits |-> IF pad THEN bits ELSE <<0, 0>>,
          ok |-> prev.ok /\ ~prev.padded /\ (pad \/ Len(block) = BLOCK_SIZE)]
    ELSE [kind |-> "h", msg |-> block, padded |-> pad,
          bits |-> IF pad THEN bits ELSE <<0, 0>>, ok |-> FALSE]

\* the standard SHA-256 digest of `data`
Sha256Digest(data) ==
    [kind |-> "h", msg |-> data, padded |-> TRUE, bits |-> <<8 * Len(data), 0>>,
     ok |-> TRUE]

NewSha256State ==
    [length |-> 0, state |-> NoDigest, curlen |-> 0,
     buf |-> [i \in 1..BLOCK_SIZE |-> 0],
     new_digest |-> TRUE, final_digest |-> FALSE]

ShaIdle ==
    [pc |-> "idle", data |-> <<>>, offset |-> 0, len |-> 0,
     st |-> NewSha256State, ops |-> <<>>]

LengthInBytes(length) == length \div 8

\* the two halves of the 64-bit length written to the length registers
\* (length & 0xffff_ffff and length >> 32, in 16-bit steps)
LengthLow(length) ==
    (length % TwoTo16) + TwoTo16 * ((length \div TwoTo16) % TwoTo16)
LengthHigh(length) == (length \div TwoTo16) \div TwoTo16

DmaLengthWhole(st) == BLOCK_SIZE

\* the transfer length programmed into DMA channel 0
DmaLength(st) == IF st.final_digest THEN st.curlen ELSE BLOCK_SIZE

\* the engine operation a new_hash / resume_hash call issues
HashOp(kind, st) ==
    [kind |-> kind,
     block |-> SubSeq(st.buf, 1, DmaLength(st)),
     pad |-> st.final_digest,
     bits |-> IF st.final_digest
              THEN <<LengthLow(st.length), LengthHigh(st.length)>>
              ELSE <<0, 0>>]

AlgSelLeftSet(sel) == sel

\* the algorithm selection a hash operation leaves behind: it writes 0
AlgSelAfterHash(sel) == {}

\* new_hash: the registers and the Sha256State after the call
new_hash(regs, st) ==
    LET op == HashOp("new", st)
        digest == HashNew(op.block, op.pad, op.bits)
    IN [regs |-> [regs EXCEPT !.alg_sel = AlgSelAfterHash({"tag", "hash"}),
                              !.aes_ctrl = NoCtrl,
                              !.int_stat = @ \ {"dma_in_done", "result_av"}],
        st |-> [st EXCEPT !.state = digest],
        op |-> op]

\* resume_hash: the registers and the Sha256State after the call
resume_hash(regs, st) ==
    LET op == HashOp("resume", st)
        digest == HashResume(st.state, op.block, op.pad, op.bits)
    IN [regs |-> [regs EXCEPT !.alg_sel = AlgSelAfterHash({"hash"}),
                              !.aes_ctrl = NoCtrl,
                              !.int_stat = @ \ {"dma_in_done", "result_av"}],
        st |-> [st EXCEPT !.state = digest],
        op |-> op]

\* buf[from+1 .. from+n] := data[offset+1 .. offset+n]
CopyIn(buf, from, data, offset, n) ==
    [i \in 1..BLOCK_SIZE |->
        IF i > from /\ i <= from + n THEN data[offset + (i - from)] ELSE buf[i]]

BufferedTwice(curlen, n) == curlen + n + n

\* state.curlen += n
BufferedAfter(curlen, n) == curlen + n

AccumulateHalf(len, curlen) == Min(len, BLOCK_SIZE \div 2)

\* let n = usize::min(len, BLOCK_SIZE - state.curlen as usize)
AccumulateCount(len, curlen) == Min(len, BLOCK_SIZE - curlen)

\* one pass over the body shared by the prime phase (with new_hash) and
\* the streaming loop (with resume_hash)
ShaStep(s, regs, first) ==
    LET st == s.st
        hash(r, t) == IF first THEN new_hash(r, t) ELSE resume_hash(r, t)
    IN
    IF st.curlen = 0 /\ s.len > BLOCK_SIZE
    THEN LET st1 == [st EXCEPT !.buf = CopyIn(st.buf, 0, s.data, s.offset, BLOCK_SIZE)]
             h == hash(regs, st1)
         IN [s |-> [s EXCEPT !.pc = "stream",
                             !.st = [h.st EXCEPT !.new_digest = FALSE,
                                                 !.length = @ + BLOCK_SIZE * 8],
                             !.offset = @ + BLOCK_SIZE,
                             !.len = @ - BLOCK_SIZE,
                             !.ops = Append(@, h.op)],
             regs |-> h.regs]
    ELSE LET n == AccumulateCount(s.len, st.curlen)
         IN IF st.curlen # 0
            \* buf[curlen..n] and data[offset..offset+n] differ in length
            THEN [s |-> [s EXCEPT !.pc = "panicked"], regs |-> regs]
            ELSE LET st1 == [st EXCEPT !.buf = CopyIn(st.buf, st.curlen, s.data, s.offset, n),
                                       !.curlen = BufferedAfter(@, n)]
                     len1 == s.len - n
                     s1 == [s EXCEPT !.pc = "stream", !.st = st1,
                                     !.offset = @ + n, !.len = len1]
                 IN IF st1.curlen = BLOCK_SIZE /\ len1 > 0
                    THEN LET h == hash(regs, st1)
                         IN [s |-> [s1 EXCEPT !.st = [h.st EXCEPT !.new_digest = FALSE,
                                                                  !.length = @ + BLOCK_SIZE * 8,
                                                                  !.curlen = 0],
                                              !.ops = Append(@, h.op)],
                             regs |-> h.regs]
                    ELSE [s |-> s1, regs |-> regs]

FinalizeAsNewHash(regs, st) ==
    LET st1 == [st EXCEPT !.length = @ + st.curlen * 8, !.final_digest = TRUE]
        h == new_hash(regs, st1)
    IN [regs |-> h.regs,
        st |-> [h.st EXCEPT !.new_digest = FALSE, !.final_digest = FALSE],
        op |-> h.op]

\* finalize: the last engine operation, with the padding enabled
finalize(regs, st) ==
    LET st1 == [st EXCEPT !.length = @ + st.curlen * 8, !.final_digest = TRUE]
        h == IF st1.new_digest THEN new_hash(regs, st1) ELSE resume_hash(regs, st1)
    IN [regs |-> h.regs,
        st |-> [h.st EXCEPT !.new_digest = FALSE, !.final_digest = FALSE],
        op |-> h.op]

\* sha256 is called on n bytes: the busy check, then the prime phase is next
Sha256Call(n) ==
    /\ sha.pc = "idle"
    /\ aesLast.done
    /\ IF is_aes_in_use
       THEN /\ aesLast' = [op |-> "sha256", ran |-> FALSE, ok |-> FALSE, done |-> TRUE,
                           data |-> Data(n), digest |-> NoDigest,
                           after |-> AfterOf(aesLast)]
            /\ UNCHANGED sha
       ELSE /\ aesLast' = [op |-> "sha256", ran |-> TRUE, ok |-> TRUE, done |-> FALSE,
                           data |-> Data(n), digest |-> NoDigest,
                           after |-> AfterOf(aesLast)]
            /\ sha' = [ShaIdle EXCEPT !.pc = "prime", !.data = Data(n), !.len = n]
    /\ UNCHANGED <<handle, aes, pkaVars>>

\* sha256, lines 43-67: the first block
Sha256Prime ==
    /\ sha.pc = "prime"
    /\ LET r == ShaStep(sha, aes, TRUE)
       IN sha' = r.s /\ aes' = r.regs
    /\ UNCHANGED <<handle, aesLast, pkaVars>>

\* sha256, lines 69-91: one turn of the streaming loop
Sha256Stream ==
    /\ sha.pc = "stream"
    /\ sha.len > 0 /\ ~sha.st.new_digest
    /\ LET r == ShaStep(sha, aes, FALSE)
       IN sha' = r.s /\ aes' = r.regs
    /\ UNCHANGED <<handle, aesLast, pkaVars>>

\* sha256, lines 93-95: finalize and copy the digest out
Sha256Finalize ==
    /\ sha.pc = "stream"
    /\ ~(sha.len > 0 /\ ~sha.st.new_digest)
    /\ LET f == finalize(aes, sha.st)
       IN /\ aes' = f.regs
          /\ sha' = [sha EXCEPT !.pc = "idle", !.st = f.st, !.ops = Append(@, f.op)]
          /\ aesLast' = [aesLast EXCEPT !.done = TRUE, !.digest = f.st.state]
    /\ UNCHANGED <<handle, pkaVars>>

----------------------------------------------------------------------------
(* The key store (crypto/aes_engine/keys.rs, mod.rs load_key). *)

Key128 == 1
Key192 == 2
Key256 == 3

\* AesKeys::create for one key: the 128-bit areas it takes and their content
AesKeysCreate(tok, sizes, start_area) ==
    [keys |-> IF sizes = Key128 THEN <<tok>> ELSE <<tok, tok>>,
     sizes |-> sizes,
     count |-> IF sizes = Key128 THEN 1 ELSE 2,
     start_area |-> start_area]

\* ((1 << count) - 1) << start_area, as the set of the bits that are set
AreasOf(k) == k.start_area .. (k.start_area + k.count - 1)

\* load_key: the registers after the call, and whether the call passed the
\* busy check (ran) and reached its end (ok).  hw is what the key store
\* DMA reports.
load_key(regs, k, hw) ==
    IF regs.alg_sel # {}
    THEN [regs |-> regs, ran |-> FALSE, ok |-> FALSE]
    ELSE
    LET areas == AreasOf(k)
        r1 == [regs EXCEPT !.alg_sel = {"keystore"},
                           !.int_stat = @ \ {"result_av"}]
        \* writing key_store_size deletes all keys
        r2 == IF r1.key_size # k.sizes
              THEN [r1 EXCEPT !.key_size = k.sizes, !.written_area = {},
                              !.key_ram = [a \in KeyAreas |-> 0]]
              ELSE r1
        r3 == [r2 EXCEPT !.written_area = @ \ areas]
    IN CASE hw = "dma_bus_err" ->
              [regs |-> [r3 EXCEPT !.int_stat = @ \cup {"result_av"}],
               ran |-> TRUE, ok |-> FALSE]
         [] hw = "key_st_wr_err" ->
              [regs |-> [r3 EXCEPT !.int_stat = @ \cup {"result_av"}],
               ran |-> TRUE, ok |-> FALSE]
         [] OTHER ->
              LET stored == areas \cap KeyAreas
                  r4 == [r3 EXCEPT
                           !.written_area = @ \cup stored,
                           !.key_ram = [a \in KeyAreas |->
                                          IF a \in stored
                                          THEN k.keys[a - k.start_area + 1]
                                          ELSE @[a]],
                           !.int_stat = @ \ {"dma_in_done", "result_av"},
                           !.alg_sel = {}]
              IN [regs |-> r4, ran |-> TRUE,
                  ok |-> (r4.written_area \cap areas) = areas]

----------------------------------------------------------------------------
(* The AES engine as the driver sees it.  Data bytes are bits; the engine  *)
(* XORs the input with a key stream that depends on the key, its size, the *)
(* IV and the position; a CCM tag is the symbolic MAC of what was          *)
(* authenticated.                                                          *)

RECURSIVE SumSeq(_)
SumSeq(q) == IF q = <<>> THEN 0 ELSE Head(q) + SumSeq(Tail(q))

KeyStream(key, size, iv, i) == (key + size + SumSeq(iv) + i) % 2

Xor(key, size, iv, data) ==
    [i \in 1..Len(data) |-> (data[i] + KeyStream(key, size, iv, i)) % 2]

Zeros(n) == [i \in 1..n |-> 0]

CcmTag(key, size, iv, ctrl, auth_length, adata, msg) ==
    [kind |-> "mac", key |-> key, size |-> size, iv |-> iv, m |-> ctrl.ccm_m,
     l |-> ctrl.ccm_l, alen |-> auth_length, adata |-> adata, msg |-> msg]

FromBeBytes(c) == c[4] + 256 * c[3] + 65536 * c[2] + 16777216 * c[1]

\* u32::from_le_bytes
FromLeBytes(c) == c[1] + 256 * c[2] + 65536 * c[3] + 16777216 * c[4]

\* write_iv: the words written to aes_iv_0 .. aes_iv_3
IvWords(iv) == [i \in 1..4 |-> FromLeBytes(SubSeq(iv, 4 * i - 3, 4 * i))]

\* what write_dma0 / write_dma1 program as the transfer length
DmaLen(n) == n % TwoTo16

\* auth_crypt (aes_engine/mod.rs): ctrl is the value the caller's closure
\* gives aes_ctrl; adata is <<>> for None and <<a>> for Some(a); out is the
\* caller's output buffer; hw is what the engine reports at the end.
auth_crypt(regs, ctrl, key_index, iv, adata, data_in, out, hw) ==
    IF regs.alg_sel # {}
    THEN [regs |-> regs, out |-> out, ran |-> FALSE, ok |-> FALSE, eng |-> <<>>]
    ELSE
    LET r1 == [regs EXCEPT !.alg_sel = @ \cup {"aes"},
                           !.int_stat = @ \ {"dma_in_done", "result_av"}]
    IN
    IF key_index \notin r1.written_area \/ "key_st_rd_err" \in r1.int_stat
    THEN \* the key store reports a read error: return before the IV
         [regs |-> [r1 EXCEPT !.int_stat = @ \cup {"key_st_rd_err"}],
          out |-> out, ran |-> TRUE, ok |-> FALSE, eng |-> <<>>]
    ELSE
    LET key == r1.key_ram[key_index]
        size == r1.key_size
        alen == IF adata # <<>> THEN Len(adata[1]) ELSE r1.auth_length
        r2 == [r1 EXCEPT !.aes_ctrl = ctrl, !.auth_length = alen]
        auth == IF adata # <<>> THEN adata[1] ELSE <<>>
        eng == [iv |-> iv, iv_regs |-> IvWords(iv),
                c_length |-> Len(data_in), auth_length |-> alen,
                \* aes_ctrl as it reads once the closure has run, and
                \* whether aes_auth_length was written
                aes_ctrl |-> r2.aes_ctrl, auth_written |-> adata # <<>>,
                dma0 |-> DmaLen(Len(data_in)),
                dma1 |-> IF out # <<>> THEN DmaLen(Len(out)) ELSE 0]
        res == Xor(key, size, iv, data_in)
        \* the tag authenticates the plaintext: the input when encrypting,
        \* the output when decrypting
        tag == CcmTag(key, size, iv, ctrl, alen, auth,
                      IF ctrl.direction THEN data_in ELSE res)
    IN
    IF hw = "dma_bus_err"
    THEN [regs |-> [r2 EXCEPT !.int_stat = @ \cup {"dma_bus_err"}],
          out |-> out, ran |-> TRUE, ok |-> FALSE, eng |-> <<eng>>]
    ELSE [regs |-> [r2 EXCEPT !.int_stat = @ \cup {"dma_in_done", "result_av"},
                              !.tag_out = IF ctrl.ccm THEN tag ELSE @],
          out |-> IF data_in # <<>> /\ out # <<>>
                  THEN [i \in 1..Len(out) |-> IF i <= Len(res) THEN res[i] ELSE out[i]]
                  ELSE out,
          ran |-> TRUE, ok |-> TRUE, eng |-> <<eng>>]

----------------------------------------------------------------------------
(* CTR (aes_engine/ctr.rs). *)

\* the aes_ctrl value the CTR closure writes
CtrCtrl(ctr, encrypt) ==
    [NoCtrl EXCEPT !.ctr_width = (Len(ctr) \div 4) - 1, !.ctr = TRUE,
                   !.direction = encrypt]

\* iv[..nonce_len] = nonce; iv[nonce_len..] = ctr
CtrIv(nonce, ctr) == nonce \o ctr

ctr_crypt(regs, encrypt, key_index, nonce, ctr, data_in, out, hw) ==
    IF regs.alg_sel # {}
    THEN [regs |-> regs, out |-> out, ran |-> FALSE, ok |-> FALSE, eng |-> <<>>]
    ELSE auth_crypt(regs, CtrCtrl(ctr, encrypt), key_index, CtrIv(nonce, ctr),
                    <<>>, data_in, out, hw)

\* the plaintext a decryption is expected to give back: that of the call
\* before, when that call was the encryption with the same parameters,
\* made right after a successful load_key, and this call is given its output
RoundTripOf(prev, op, params, data_in) ==
    IF /\ prev.op = op /\ prev.ok
       /\ prev.after = <<"load_key", TRUE>>
       /\ prev.params = params
       /\ prev.out = data_in
    THEN <<prev.data_in>>
    ELSE <<>>

CtrEncrypt(key_index, nonce, ctr, data_in, hw) ==
    /\ sha.pc = "idle" /\ aesLast.done
    /\ LET r == ctr_crypt(aes, TRUE, key_index, nonce, ctr, data_in,
                          Zeros(Len(data_in)), hw)
       IN /\ aes' = r.regs
          /\ aesLast' =
                IF r.ran
                THEN [op |-> "ctr_encrypt", ran |-> TRUE, ok |-> r.ok,
                      done |-> TRUE, params |-> <<key_index, nonce, ctr>>,
                      data_in |-> data_in, out |-> r.out, eng |-> r.eng,
                      fault |-> hw, busy |-> is_aes_in_use,
                      after |-> AfterOf(aesLast)]
                \* a skipped call has read nothing of its arguments
                ELSE [op |-> "ctr_encrypt", ran |-> FALSE, ok |-> FALSE,
                      done |-> TRUE, out |-> r.out,
                      busy |-> is_aes_in_use, after |-> AfterOf(aesLast)]
    /\ UNCHANGED <<handle, sha, pkaVars>>

CtrDecrypt(key_index, nonce, ctr, data_in, hw) ==
    /\ sha.pc = "idle" /\ aesLast.done
    /\ LET r == ctr_crypt(aes, FALSE, key_index, nonce, ctr, data_in,
                          Zeros(Len(data_in)), hw)
       IN /\ aes' = r.regs
          /\ aesLast' =
                IF r.ran
                THEN [op |-> "ctr_decrypt", ran |-> TRUE, ok |-> r.ok,
                      done |-> TRUE, params |-> <<key_index, nonce, ctr>>,
                      data_in |-> data_in, out |-> r.out, eng |-> r.eng,
                      rt |-> RoundTripOf(aesLast, "ctr_encrypt",
                                         <<key_index, nonce, ctr>>, data_in),
                      fault |-> hw, busy |-> is_aes_in_use,
                      after |-> AfterOf(aesLast)]
                \* a skipped call has read nothing of its arguments
                ELSE [op |-> "ctr_decrypt", ran |-> FALSE, ok |-> FALSE,
                      done |-> TRUE, out |-> r.out,
                      rt |-> RoundTripOf(aesLast, "ctr_encrypt",
                                         <<key_index, nonce, ctr>>, data_in),
                      busy |-> is_aes_in_use, after |-> AfterOf(aesLast)]
    /\ UNCHANGED <<handle, sha, pkaVars>>

\* load_key with the key buffer AesKeys::create builds
LoadKey(k, hw) ==
    /\ sha.pc = "idle" /\ aesLast.done
    /\ LET r == load_key(aes, k, hw)
       IN /\ aes' = r.regs
          /\ aesLast' =
                IF r.ran
                THEN [op |-> "load_key", ran |-> TRUE, ok |-> r.ok,
                      done |-> TRUE, keys |-> k, fault |-> hw,
                      busy |-> is_aes_in_use, after |-> AfterOf(aesLast)]
                ELSE [op |-> "load_key", ran |-> FALSE, ok |-> FALSE,
                      done |-> TRUE, busy |-> is_aes_in_use,
                      after |-> AfterOf(aesLast)]
    /\ UNCHANGED <<handle, sha, pkaVars>>

\* sys_ctrl reset_aes / clear_reset_aes
ResetAes ==
    /\ sha.pc = "idle" /\ aesLast.done
    /\ aes' = AesResetRegs
    /\ aesLast' = [op |-> "reset", ran |-> TRUE, ok |-> TRUE, done |-> TRUE]
    /\ UNCHANGED <<handle, sha, pkaVars>>

----------------------------------------------------------------------------
(* CCM (aes_engine/ccm.rs). *)

CCM_NONCE_LEN == 15
Width128 == 0

\* the aes_ctrl value the CCM closure leaves (a modify of the register)
CcmCtrl(old, info, encrypt) ==
    [old EXCEPT !.save_context = TRUE,
                !.ccm_m = (Max(info.auth_field_size, 2) - 2) \div 2,
                !.ccm_l = info.len_field_size - 1,
                !.ccm = TRUE, !.ctr_width = Width128, !.ctr = TRUE,
                !.direction = encrypt]

CcmIvNonceLast(info, nonce) ==
    <<info.len_field_size - 1>> \o Zeros(info.len_field_size) \o nonce

\* iv[0] = L - 1; then the nonce; the last L bytes are zero
CcmIv(info, nonce) ==
    <<info.len_field_size - 1>> \o nonce \o Zeros(info.len_field_size)

ccm_crypt(regs, ctrl, info, nonce, data_in, out, hw) ==
    IF regs.alg_sel # {}
    THEN [regs |-> regs, out |-> out, ran |-> FALSE, ok |-> FALSE, eng |-> <<>>]
    ELSE auth_crypt(regs, ctrl, info.key_index, CcmIv(info, nonce), info.adata,
                    data_in, out, hw)

\* the tag an identical ccm_encrypt right before this one produced
TwinOf(prev, info, nonce, data_in) ==
    IF /\ prev.op = "ccm_encrypt" /\ prev.ok
       /\ prev.after = <<"load_key", TRUE>>
       /\ prev.params = <<info, nonce>>
       /\ prev.data_in = data_in
    THEN <<prev.tag>>
    ELSE <<>>

CcmEncrypt(info, nonce, data_in, hw) ==
    /\ sha.pc = "idle" /\ aesLast.done
    /\ LET r == ccm_crypt(aes, CcmCtrl(aes.aes_ctrl, info, TRUE), info, nonce,
                          data_in, Zeros(Len(data_in)), hw)
       IN /\ aes' = r.regs
          /\ aesLast' =
                IF r.ran
                THEN [op |-> "ccm_encrypt", ran |-> TRUE, ok |-> r.ok,
                      done |-> TRUE, params |-> <<info, nonce>>,
                      data_in |-> data_in, out |-> r.out, eng |-> r.eng,
                      tag |-> r.regs.tag_out,
                      twin |-> TwinOf(aesLast, info, nonce, data_in),
                      fault |-> hw, busy |-> is_aes_in_use,
                      after |-> AfterOf(aesLast)]
                \* a skipped call has read nothing of its arguments
                ELSE [op |-> "ccm_encrypt", ran |-> FALSE, ok |-> FALSE,
                      done |-> TRUE, out |-> r.out,
                      \* read_tag is called whatever ccm_crypt did
                      tag |-> r.regs.tag_out,
                      twin |-> TwinOf(aesLast, info, nonce, data_in),
                      busy |-> is_aes_in_use, after |-> AfterOf(aesLast)]
    /\ UNCHANGED <<handle, sha, pkaVars>>

CcmDecrypt(info, nonce, data_in, hw) ==
    /\ sha.pc = "idle" /\ aesLast.done
    /\ LET r == ccm_crypt(aes, CcmCtrl(aes.aes_ctrl, info, FALSE), info, nonce,
                          data_in, Zeros(Len(data_in)), hw)
       IN /\ aes' = r.regs
          /\ aesLast' =
                IF r.ran
                THEN [op |-> "ccm_decrypt", ran |-> TRUE, ok |-> r.ok,
                      done |-> TRUE, params |-> <<info, nonce>>,
                      data_in |-> data_in, out |-> r.out, eng |-> r.eng,
                      rt |-> RoundTripOf(aesLast, "ccm_encrypt",
                                         <<info, nonce>>, data_in),
                      fault |-> hw, busy |-> is_aes_in_use,
                      after |-> AfterOf(aesLast)]
                \* a skipped call has read nothing of its arguments
                ELSE [op |-> "ccm_decrypt", ran |-> FALSE, ok |-> FALSE,
                      done |-> TRUE, out |-> r.out,
                      rt |-> RoundTripOf(aesLast, "ccm_encrypt",
                                         <<info, nonce>>, data_in),
                      busy |-> is_aes_in_use, after |-> AfterOf(aesLast)]
    /\ UNCHANGED <<handle, sha, pkaVars>>

----------------------------------------------------------------------------
(* The waits of auth_crypt (aes_engine/mod.rs), one step per busy-poll:    *)
(* the call polls ctrl_int_stat while the engine raises its flags.         *)

\* the flags the last loop of auth_crypt polls
EndFlags == {"dma_bus_err", "key_st_rd_err", "key_st_wr_err", "result_av"}

DmaWaits == {"adata_dma", "data_dma0", "data_dma1"}

\* the flags the loop at pc polls: write_dma0 and write_dma1 poll
\* dma_in_done, the last loop polls the four end flags
PolledAt(pc) == IF pc \in DmaWaits THEN {"dma_in_done"} ELSE EndFlags

\* where the call waits next, data_in's transfers not yet started
BeforeData(data_in) == IF data_in # <<>> THEN "data_dma0" ELSE "result"

\* the call in flight, polling at pc: aes_c_length_0 holds the length of
\* data_in, and channel 0 has been programmed for data_in once the call
\* polls in write_dma0(data_in)
AcWaiting(pc, data_in, data_out) ==
    [op |-> "auth_crypt", ran |-> TRUE, ok |-> FALSE, done |-> FALSE,
     pc |-> pc, data_in |-> data_in, data_out |-> data_out,
     c_length |-> Len(data_in),
     dma0 |-> IF pc = "data_dma0" THEN <<DmaLen(Len(data_in))>> ELSE <<>>]

AcReturned(ok) ==
    [op |-> "auth_crypt", ran |-> TRUE, ok |-> ok, done |-> TRUE, pc |-> "returned"]

\* auth_crypt from its entry to its first busy-poll
AcBegin(ctrl, key_index, adata, data_in, data_out) ==
    /\ sha.pc = "idle" /\ aesLast.done
    /\ IF is_aes_in_use
       THEN /\ aes' = aes
            /\ aesLast' = [op |-> "auth_crypt", ran |-> FALSE, ok |-> FALSE,
                           done |-> TRUE, pc |-> "returned"]
       ELSE LET r1 == [aes EXCEPT !.alg_sel = @ \cup {"aes"},
                                  !.int_stat = @ \ {"dma_in_done", "result_av"}]
            IN IF key_index \notin r1.written_area \/ "key_st_rd_err" \in r1.int_stat
               THEN /\ aes' = [r1 EXCEPT !.int_stat = @ \cup {"key_st_rd_err"}]
                    /\ aesLast' = AcReturned(FALSE)
               ELSE /\ aes' = [r1 EXCEPT !.aes_ctrl = ctrl,
                                         !.auth_length =
                                            IF adata # <<>> THEN Len(adata[1]) ELSE @]
                    /\ aesLast' =
                          AcWaiting(IF adata # <<>> /\ adata[1] # <<>>
                                    THEN "adata_dma" ELSE BeforeData(data_in),
                                    data_in, data_out)
    /\ UNCHANGED <<handle, sha, pkaVars>>

\* the engine raises a flag of ctrl_int_stat while the call polls; the
\* result is available only once the input transfers are over
HwRaise(f) ==
    /\ ~aesLast.done /\ aesLast.op = "auth_crypt"
    /\ f \notin aes.int_stat
    /\ f = "result_av" => aesLast.pc = "result"
    /\ f = "dma_in_done" => aesLast.pc \in DmaWaits
    /\ aes' = [aes EXCEPT !.int_stat = @ \cup {f}]
    /\ UNCHANGED <<handle, aesLast, sha, pkaVars>>

\* a poll finds a flag it waits for: the call goes on to its next poll,
\* or returns
AcStep ==
    /\ ~aesLast.done /\ aesLast.op = "auth_crypt"
    /\ PolledAt(aesLast.pc) \cap aes.int_stat # {}
    /\ CASE aesLast.pc = "adata_dma" ->
              IF "dma_bus_err" \in aes.int_stat
              THEN aes' = aes /\ aesLast' = AcReturned(FALSE)
              ELSE /\ aes' = [aes EXCEPT !.int_stat = @ \ {"dma_in_done"}]
                   /\ aesLast' = AcWaiting(BeforeData(aesLast.data_in),
                                           aesLast.data_in, aesLast.data_out)
         [] aesLast.pc = "data_dma0" ->
              /\ aes' = aes
              /\ aesLast' = [aesLast EXCEPT !.pc = IF aesLast.data_out # <<>>
                                                   THEN "data_dma1" ELSE "result"]
         [] aesLast.pc = "data_dma1" ->
              aes' = aes /\ aesLast' = [aesLast EXCEPT !.pc = "result"]
         [] aesLast.pc = "result" ->
              /\ aes' = aes
              /\ aesLast' = AcReturned(aes.int_stat \cap EndFlags = {"result_av"})
    /\ UNCHANGED <<handle, sha, pkaVars>>

----------------------------------------------------------------------------
(* The calls made to the AES unit. *)

\* the messages handed to CTR and CCM: every message of one byte
Messages == {<<0>>, <<1>>}

KeyTokens == {1, 2}
KeySizes == {Key128, Key192, Key256}
StartAreas == {0}
KeyIndices == {0, 1}
HwLoad == {"none", "dma_bus_err", "key_st_wr_err"}
HwCrypt == {"none", "dma_bus_err"}

AllAesKeys ==
    {AesKeysCreate(t, z, a) : t \in KeyTokens, z \in KeySizes, a \in StartAreas}

\* nonce and counter of the CTR calls: together they fill the 16-byte IV
CtrNonces == {<<>>, [i \in 1..12 |-> 1]}
CtrFor(nonce) == [i \in 1..(16 - Len(nonce)) |-> 2]

LenFieldSizes == {2, 8}
AuthFieldSizes == {4, 16}
ADatas == {<<>>, <<<<1>>>>}

CcmInfos ==
    {[key_index |-> 0, len_field_size |-> l, auth_field_size |-> a, adata |-> d] :
        l \in LenFieldSizes, a \in AuthFieldSizes, d \in ADatas}

CcmNonceFor(info) == [i \in 1..(CCM_NONCE_LEN - info.len_field_size) |-> 1]

NextAes ==
    \/ \E k \in AllAesKeys, hw \in HwLoad : LoadKey(k, hw)
    \/ \E k \in KeyIndices, n \in CtrNonces, d \in Messages, hw \in HwCrypt :
          CtrEncrypt(k, n, CtrFor(n), d, hw)
    \/ \E k \in KeyIndices, n \in CtrNonces, d \in Messages, hw \in HwCrypt :
          CtrDecrypt(k, n, CtrFor(n), d, hw)
    \/ \E i \in CcmInfos, d \in Messages, hw \in HwCrypt :
          CcmEncrypt(i, CcmNonceFor(i), d, hw)
    \/ \E i \in CcmInfos, d \in Messages, hw \in HwCrypt :
          CcmDecrypt(i, CcmNonceFor(i), d, hw)
    \/ ResetAes

----------------------------------------------------------------------------
(* The PKA unit: registers, RAM and what the hardware computes.  A word of *)
(* a big number is a digit in base WordBase; vectors are little-endian     *)
(* sequences of words; the hardware is exact multi-word arithmetic on the  *)
(* vectors its pointer and length registers designate.                     *)

\* the base of a word (2^32 on the device)
WordBase == 2
\* the words of PKA RAM the model keeps (0x800 bytes on the device)
RamWords == 40
\* the capacity MAX_LEN of the BigNum<MAX_LEN> values of the caller
MAX_LEN == 8
\* the calls the main caller makes, and those the second caller makes
MaxCalls == 2
MaxIsrCalls == 1

PkaResetRegs ==
    [run |-> FALSE, function |-> "none",
     aptr |-> 0, bptr |-> 0, cptr |-> 0, dptr |-> 0,
     alength |-> 0, blength |-> 0,
     msw |-> 0, result_is_zero |-> FALSE, shift |-> 0, compare |-> "none"]

PkaRamReset == [i \in 0..(RamWords - 1) |-> 0]

RECURSIVE ValueOf(_)
\* the number a vector stands for, word 0 the least significant
ValueOf(ws) == IF ws = <<>> THEN 0 ELSE Head(ws) + WordBase * ValueOf(Tail(ws))

RECURSIVE WordsOf(_, _)
\* the n least significant words of v
WordsOf(v, n) ==
    IF n = 0 THEN <<>> ELSE <<v % WordBase>> \o WordsOf(v \div WordBase, n - 1)

RECURSIVE Pow(_, _)
Pow(b, e) == IF e = 0 THEN 1 ELSE b * Pow(b, e - 1)

RECURSIVE Gcd(_, _)
Gcd(a, b) == IF b = 0 THEN a ELSE Gcd(b, a % b)

\* PkaRam::read_slice / what the hardware reads: len words from word ptr
ReadVec(ram, ptr, len) ==
    [i \in 1..len |-> IF ptr + i - 1 \in DOMAIN ram THEN ram[ptr + i - 1] ELSE 0]

\* PkaRam::write_slice / what the hardware writes: ws from word ptr on
WriteVec(ram, ptr, ws) ==
    [i \in DOMAIN ram |->
        IF i >= ptr /\ i < ptr + Len(ws) THEN ws[i - ptr + 1] ELSE ram[i]]

\* the index of the most significant non-zero word of ws, 0 if none
MswIndex(ws) ==
    IF \A i \in 1..Len(ws) : ws[i] = 0 THEN 0
    ELSE CHOOSE i \in 1..Len(ws) :
            ws[i] # 0 /\ \A j \in (i + 1)..Len(ws) : ws[j] = 0

\* the hardware stores a result vector and reports its most significant word
StoreResult(p, ram, ptr, ws) ==
    [pka |-> [p EXCEPT !.run = FALSE,
                       !.msw = IF MswIndex(ws) = 0 THEN ptr
                               ELSE ptr + MswIndex(ws) - 1,
                       !.result_is_zero = (MswIndex(ws) = 0)],
     ram |-> WriteVec(ram, ptr, ws)]

\* the words a coordinate of n words takes in PKA RAM, spare words included
EccStride(n) == n + 2 + (n % 2)

\* the coordinates of the point an EC operation leaves
EccResultX(n) == [i \in 1..n |-> 1]
EccResultY(n) == [i \in 1..n |-> IF i = 1 THEN 1 ELSE 0]

\* the operation the PKA completes, from the registers and RAM it finds
PkaCompute(p, ram) ==
    LET A == ReadVec(ram, p.aptr, p.alength)
        B == ReadVec(ram, p.bptr, p.blength)
        a == ValueOf(A)
        b == ValueOf(B)
        mlen == Max(p.alength, p.blength)
    IN CASE p.function = "add" ->
              StoreResult(p, ram, p.cptr, WordsOf(a + b, mlen + 1))
         [] p.function = "subtract" ->
              StoreResult(p, ram, p.cptr,
                          WordsOf((a - b) % Pow(WordBase, mlen), mlen))
         [] p.function = "addsub" ->
              LET c == ValueOf(ReadVec(ram, p.cptr, p.alength))
                  bb == ValueOf(ReadVec(ram, p.bptr, p.alength))
              IN StoreResult(p, ram, p.dptr,
                             WordsOf((a + c - bb) % Pow(WordBase, p.alength + 1),
                                     p.alength + 1))
         [] p.function = "multiply" ->
              StoreResult(p, ram, p.cptr, WordsOf(a * b, p.alength + p.blength))
         [] p.function = "modulo" ->
              StoreResult(p, ram, p.cptr,
                          WordsOf(IF b = 0 THEN 0 ELSE a % b, p.blength + 1))
         [] p.function = "modinv" ->
              IF b > 1 /\ b % 2 = 1 /\ Gcd(a, b) = 1
              THEN LET inv == CHOOSE x \in 1..(b - 1) : (a * x) % b = 1
                       r == StoreResult(p, ram, p.dptr, WordsOf(inv, p.blength))
                   IN [r EXCEPT !.pka.shift = 0]
              ELSE [pka |-> [p EXCEPT !.run = FALSE,
                                      !.shift = IF b % 2 = 1 /\ b > 1 THEN 7 ELSE 31],
                    ram |-> ram]
         [] p.function = "expmod" ->
              LET c == ValueOf(ReadVec(ram, p.cptr, p.blength))
              IN StoreResult(p, ram, p.dptr,
                             WordsOf(IF b = 0 THEN 0 ELSE Pow(c, a) % b, p.blength))
         [] p.function = "compare" ->
              LET c == ValueOf(ReadVec(ram, p.cptr, p.alength))
              IN [pka |-> [p EXCEPT !.run = FALSE,
                                    !.compare = IF a = c THEN "a_equals_b"
                                                ELSE IF a < c THEN "a_less_than_b"
                                                ELSE "a_greater_than_b"],
                  ram |-> ram]
         [] p.function \in {"eccmul", "eccadd"} ->
              \* the point computed is not modelled: its coordinates are
              \* stored at D, each followed by the two spare words
              LET r == StoreResult(p, ram, p.dptr, EccResultX(p.blength))
              IN [pka |-> [r.pka EXCEPT !.shift = 0],
                  ram |-> WriteVec(r.ram, p.dptr + EccStride(p.blength),
                                   EccResultY(p.blength))]
         [] OTHER -> [pka |-> [p EXCEPT !.run = FALSE], ram |-> ram]

----------------------------------------------------------------------------
(* The big-number driver (crypto/bignum.rs, impl Crypto).  The functions   *)
(* take no handle: they reach the PKA through Self::pka().                 *)

PkaNeverInUse(p) == FALSE

is_pka_in_use(p) == p.run

\* the bits written to the function register, run bit aside
FunctionOf(op) ==
    CASE op = "add" -> "add"
      [] op = "sub" -> "subtract"
      [] op = "add_sub" -> "addsub"
      [] op = "mul" -> "multiply"
      [] op = "modulo" -> "modulo"
      [] op = "inv_modulo" -> "modinv"
      [] op = "exp" -> "expmod"
      [] op = "cmp" -> "compare"
      [] op = "ecc_mul" -> "eccmul"
      [] op = "ecc_add" -> "eccadd"

\* a curve of two-word coordinates, in place of nist_p_256 and its like
ToyCurve ==
    [size |-> 2, prime |-> <<1, 1>>, a_coef |-> <<1, 0>>, b_coef |-> <<0, 1>>]

\* the operands written to PKA RAM and the pointer and length registers,
\* up to the write of the function register.  x, y, z are the slices in
\* the order of the function's parameters; offsets are in words.
WriteOperands(p, ram, op, x, y, z) ==
    CASE op \in {"add", "sub", "mul", "modulo", "inv_modulo"} ->
           [pka |-> [p EXCEPT !.aptr = 0, !.bptr = Len(x),
                              !.cptr = Len(x) + Len(y),
                              !.alength = Len(x), !.blength = Len(y)],
            ram |-> WriteVec(WriteVec(ram, 0, x), Len(x), y),
            start |-> Len(x) + Len(y)]
      [] op = "add_sub" ->
           \* add_sub(a, c, b): A = a, B = b, C = c, D the result
           [pka |-> [p EXCEPT !.aptr = 0, !.bptr = Len(x),
                              !.cptr = Len(x) + Len(z),
                              !.dptr = Len(x) + Len(z) + Len(y),
                              !.alength = Len(x)],
            ram |-> WriteVec(WriteVec(WriteVec(ram, 0, x), Len(x), z),
                             Len(x) + Len(z), y),
            start |-> Len(x) + Len(z) + Len(y)]
      [] op = "exp" ->
           \* exp(exponent, modulus, base): A, B, C; D shares C's address
           [pka |-> [p EXCEPT !.aptr = 0, !.bptr = Len(x),
                              !.cptr = Len(x) + Len(y),
                              !.dptr = Len(x) + Len(y),
                              !.alength = Len(x), !.blength = Len(y)],
            ram |-> WriteVec(WriteVec(WriteVec(ram, 0, x), Len(x), y),
                             Len(x) + Len(y), z),
            start |-> Len(x) + Len(y)]
      [] op = "cmp" ->
           [pka |-> [p EXCEPT !.aptr = 0, !.cptr = Len(x), !.alength = Len(x)],
            ram |-> WriteVec(WriteVec(ram, 0, x), Len(x), y),
            start |-> Len(x)]
      [] op = "ecc_mul" ->
           \* ecc_mul(curve, scalar = x, point = (y, z))
           LET n == ToyCurve.size
               b == Len(x)
               c == b + 3 * EccStride(n)
               d == c + 2 * EccStride(n)
               r1 == WriteVec(ram, 0, x)
               r2 == WriteVec(r1, b, ToyCurve.prime)
               r3 == WriteVec(r2, b + EccStride(n), ToyCurve.a_coef)
               r4 == WriteVec(r3, b + 2 * EccStride(n), ToyCurve.b_coef)
               r5 == WriteVec(r4, c, SubSeq(y, 1, n))
               r6 == WriteVec(r5, c + EccStride(n), SubSeq(z, 1, n))
           IN [pka |-> [p EXCEPT !.aptr = 0, !.bptr = b, !.cptr = c, !.dptr = d,
                                 !.alength = n, !.blength = n],
               ram |-> r6, start |-> d]
      [] op = "ecc_add" ->
           \* ecc_add(curve, point_a = (x, y), point_b = (z, z))
           LET n == ToyCurve.size
               b == 2 * EccStride(n)
               c == b + 2 * EccStride(n)
               d == c + 2 * EccStride(n)
               r1 == WriteVec(ram, 0, SubSeq(x, 1, n))
               r2 == WriteVec(r1, EccStride(n), SubSeq(y, 1, n))
               r3 == WriteVec(r2, b, ToyCurve.prime)
               r4 == WriteVec(r3, b + EccStride(n), ToyCurve.a_coef)
               r5 == WriteVec(r4, c, SubSeq(z, 1, n))
               r6 == WriteVec(r5, c + EccStride(n), SubSeq(z, 1, n))
           IN [pka |-> [p EXCEPT !.aptr = 0, !.bptr = b, !.cptr = c, !.dptr = d,
                                 !.blength = n],
               ram |-> r6, start |-> d]

\* the write of the function register: the operation and the run bit
StartOp(p, op) == [p EXCEPT !.function = FunctionOf(op), !.run = TRUE]

\* what a call returns when it finds the run flag set
BusyReturn(op) ==
    CASE op = "exp" -> [kind |-> "unit"]
      [] op = "cmp" -> [kind |-> "None"]
      [] OTHER -> [kind |-> "Err", err |-> "PkaBusy"]

\* result[..len] = the words read back; a slice longer than the buffer panics
ReadBack(ram, from, len, result, ret) ==
    IF len < 0 \/ len > Len(result)
    THEN [ret |-> [kind |-> "panic"], result |-> result]
    ELSE [ret |-> ret,
          result |-> [i \in 1..Len(result) |->
                        IF i <= len THEN ReadVec(ram, from, len)[i] ELSE result[i]]]

InvModuloAlwaysOk(status) == [kind |-> "Ok"]

\* inv_modulo: the match on the status the sequencer left in the shift
\* register
InvModuloReturn(status) ==
    CASE status = 0 -> [kind |-> "Ok"]
      [] status = 7 -> [kind |-> "Err", err |-> "NoSolution"]
      [] status = 31 -> [kind |-> "Err", err |-> "PkaFailure"]
      [] OTHER -> [kind |-> "panic"]

EccStatusAny(status) == TRUE

\* ecc_mul, ecc_add: the shift register is 0x0 or 0x7
EccStatusOk(status) == status = 0 \/ status = 7

\* the part of a call after the wait: the registers read, the result copied
FinishOp(p, ram, op, x, y, start, result) ==
    CASE op \in {"add", "sub", "add_sub", "mul"} ->
           IF p.result_is_zero
           THEN [ret |-> [kind |-> "Ok", len |-> 0], result |-> Zeros(Len(result))]
           ELSE LET len == p.msw - start + 1
                IN IF p.msw < start
                   THEN [ret |-> [kind |-> "panic"], result |-> result]
                   ELSE ReadBack(ram, start, len, result, [kind |-> "Ok", len |-> len])
      [] op = "modulo" ->
           IF p.result_is_zero
           THEN [ret |-> [kind |-> "Ok", len |-> Len(y) + 1],
                 result |-> Zeros(Len(result))]
           ELSE ReadBack(ram, start, Len(y) + 1, result,
                         [kind |-> "Ok", len |-> Len(y) + 1])
      [] op = "inv_modulo" ->
           LET r == InvModuloReturn(p.shift)
           IN IF r.kind = "Ok"
              THEN ReadBack(ram, start, Len(x), result, r)
              ELSE [ret |-> r, result |-> result]
      [] op = "exp" ->
           IF p.msw = 0 \/ p.result_is_zero
           THEN [ret |-> [kind |-> "unit"], result |-> result]
           ELSE ReadBack(ram, start, (p.msw + 1) - p.dptr, result, [kind |-> "unit"])
      [] op = "cmp" ->
           [ret |-> IF p.compare = "a_equals_b" THEN [kind |-> "Some", ord |-> "Equal"]
                    ELSE IF p.compare = "a_less_than_b"
                         THEN [kind |-> "Some", ord |-> "Less"]
                    ELSE IF p.compare = "a_greater_than_b"
                         THEN [kind |-> "Some", ord |-> "Greater"]
                    ELSE [kind |-> "None"],
            result |-> result]
      [] op \in {"ecc_mul", "ecc_add"} ->
           IF ~EccStatusOk(p.shift)
           THEN [ret |-> [kind |-> "Err", err |-> "PkaFailure"], result |-> result]
           ELSE IF p.msw = 0 \/ p.result_is_zero
           THEN [ret |-> [kind |-> "Err", err |-> "PkaFailure"], result |-> result]
           ELSE LET len == (p.msw + 1) - p.dptr
                    first == ReadBack(ram, start, len, result, [kind |-> "Ok"])
                IN IF first.ret.kind = "panic" \/ 2 * len > Len(result)
                   THEN [ret |-> [kind |-> "panic"], result |-> result]
                   ELSE [ret |-> [kind |-> "Ok"],
                         result |->
                            [i \in 1..Len(result) |->
                               IF i > len /\ i <= 2 * len
                               THEN ReadVec(ram, start + EccStride(len), len)[i - len]
                               ELSE first.result[i]]]

----------------------------------------------------------------------------
(* BigNum<MAX_LEN> (crypto/bignum.rs): a buffer of MAX_LEN words and the   *)
(* number of words in use.                                                 *)

Pad(ws) == [i \in 1..MAX_LEN |-> IF i <= Len(ws) THEN ws[i] ELSE 0]

\* BigNum::inner
Inner(big) == SubSeq(big.buffer, 1, big.size)

\* the size given to BigNum::new for the result of a method
TmpSize(op, x, y) ==
    CASE op = "add" -> Max(Len(x), Len(y)) + 1
      [] op = "sub" -> Max(Len(x), Len(y))
      [] op = "add_sub" -> Len(x)
      [] op = "mul" -> Len(x) + Len(y) + 6
      [] op = "modulo" -> Len(y) + 2
      [] op = "inv_modulo" -> Len(y) + 1
      [] op = "exp" -> MAX_LEN
      [] op = "cmp" -> 0

\* what the BigNum method returns, from what the Crypto function returned
\* and left in tmp
WrapReturn(op, ret, result) ==
    CASE ret.kind = "panic" -> [kind |-> "panic"]
      [] op = "cmp" -> ret
      \* ecc_mul and ecc_add are called on slices: no BigNum is made
      [] op \in {"ecc_mul", "ecc_add"} -> ret
      [] op = "exp" ->
           [kind |-> "Big", big |-> [buffer |-> Pad(result), size |-> Len(result)]]
      [] ret.kind = "Err" -> ret
      [] op = "inv_modulo" ->
           [kind |-> "Ok", big |-> [buffer |-> Pad(result), size |-> Len(result)]]
      [] OTHER ->
           \* tmp.set_size(len) asserts len <= MAX_LEN
           IF ret.len > MAX_LEN THEN [kind |-> "panic"]
           ELSE [kind |-> "Ok", big |-> [buffer |-> Pad(result), size |-> ret.len]]

NoReturn == [kind |-> "none"]

BnIdle ==
    [pc |-> "idle", op |-> "none", x |-> <<>>, y |-> <<>>, z |-> <<>>,
     orig |-> <<>>, busy |-> FALSE, start |-> 0, result |-> <<>>,
     ret |-> NoReturn, out |-> NoReturn, calls |-> 0]

\* a BigNum method is entered: tmp is made, its slice taken, the Crypto
\* function called and the run flag read
BnEnter(op, x, y, z, orig) ==
    LET size == TmpSize(op, x, y)
        call == [BnIdle EXCEPT !.op = op, !.x = x, !.y = y, !.z = z,
                               !.orig = orig, !.busy = is_pka_in_use(pka),
                               !.calls = bn.calls + 1]
    IN IF size > MAX_LEN
       \* tmp.inner_mut() slices buffer[..size]
       THEN [call EXCEPT !.pc = "panicked", !.busy = FALSE,
                         !.out = [kind |-> "panic"]]
       ELSE IF is_pka_in_use(pka)
       THEN [call EXCEPT !.ret = BusyReturn(op), !.result = Zeros(size),
                         !.out = WrapReturn(op, BusyReturn(op), Zeros(size))]
       ELSE [call EXCEPT !.pc = "write", !.result = Zeros(size)]

BnCall(op, x, y, z) ==
    /\ bn.pc = "idle"
    /\ bn.calls < MaxCalls
    /\ bn' = BnEnter(op, x, y, z, <<>>)
    /\ UNCHANGED <<handle, aesVars, pka, pkaRam, isr>>

\* the main caller calls ecc_mul or ecc_add: the run flag is read and, the
\* PKA free, the operands are written next; result has room for two
\* coordinates
EcCall(op, x, y, z) ==
    /\ bn.pc = "idle"
    /\ bn.calls < MaxCalls
    /\ LET call == [BnIdle EXCEPT !.op = op, !.x = x, !.y = y, !.z = z,
                                  !.busy = is_pka_in_use(pka),
                                  !.result = Zeros(2 * ToyCurve.size),
                                  !.calls = bn.calls + 1]
       IN bn' = IF is_pka_in_use(pka)
                THEN [call EXCEPT !.ret = BusyReturn(op), !.out = BusyReturn(op)]
                ELSE [call EXCEPT !.pc = "write"]
    /\ UNCHANGED <<handle, aesVars, pka, pkaRam, isr>>

\* a.add(b) has returned Ok(sum): sum.sub(b) is called
BnSubOfSum ==
    /\ bn.pc = "idle"
    /\ bn.calls < MaxCalls
    /\ bn.op = "add" /\ bn.out.kind = "Ok"
    /\ bn' = BnEnter("sub", Inner(bn.out.big), bn.y, <<>>, <<bn.x>>)
    /\ UNCHANGED <<handle, aesVars, pka, pkaRam, isr>>

\* the operands and the pointer and length registers are written
BnWrite ==
    /\ bn.pc = "write"
    /\ LET w == WriteOperands(pka, pkaRam, bn.op, bn.x, bn.y, bn.z)
       IN /\ pka' = w.pka
          /\ pkaRam' = w.ram
          /\ bn' = [bn EXCEPT !.pc = "start", !.start = w.start]
    /\ UNCHANGED <<handle, aesVars, isr>>

\* the function register is written with the run bit
BnStart ==
    /\ bn.pc = "start"
    /\ pka' = StartOp(pka, bn.op)
    /\ bn' = [bn EXCEPT !.pc = "wait"]
    /\ UNCHANGED <<handle, aesVars, pkaRam, isr>>

\* the PKA completes the operation it was started on and clears run
HwComplete ==
    /\ pka.run
    /\ LET c == PkaCompute(pka, pkaRam)
       IN pka' = c.pka /\ pkaRam' = c.ram
    /\ UNCHANGED <<handle, aesVars, bn, isr>>

\* the PKA ends a modular inversion with a status the driver is not told
\* about in advance: the shift register holds code when run clears
HwCompleteStatus(code) ==
    /\ pka.run
    /\ pka.function = "modinv"
    /\ pka' = [pka EXCEPT !.run = FALSE, !.shift = code]
    /\ UNCHANGED <<handle, aesVars, pkaRam, bn, isr>>

WaitSkipped(p) == TRUE

\* while is_pka_in_use() {}: the loop is left once run reads clear
WaitOver(p) == ~is_pka_in_use(p)

\* the wait loop ends: the result is read back and the call returns
BnFinish ==
    /\ bn.pc = "wait"
    /\ WaitOver(pka)
    /\ LET f == FinishOp(pka, pkaRam, bn.op, bn.x, bn.y, bn.start, bn.result)
           out == WrapReturn(bn.op, f.ret, f.result)
       IN bn' = [bn EXCEPT !.pc = IF out.kind = "panic" THEN "panicked" ELSE "idle",
                           !.ret = f.ret, !.result = f.result, !.out = out]
    /\ UNCHANGED <<handle, aesVars, pka, pkaRam, isr>>

\* BigNum::new(size): the buffer zeroed and the size stored as given
BnNew(size) ==
    /\ bn.pc = "idle"
    /\ bn.calls < MaxCalls
    /\ bn' = [BnIdle EXCEPT !.op = "new", !.calls = bn.calls + 1,
                            !.out = [kind |-> "Big",
                                     big |-> [buffer |-> Zeros(MAX_LEN),
                                              size |-> size]]]
    /\ UNCHANGED <<handle, aesVars, pka, pkaRam, isr>>

\* set_size(size) on the BigNum the last call returned: assert, then store
BnSetSize(size) ==
    /\ bn.pc = "idle"
    /\ bn.calls < MaxCalls
    /\ bn.out.kind \in {"Ok", "Big"}
    /\ bn' = IF size <= MAX_LEN
             THEN [bn EXCEPT !.op = "set_size", !.calls = @ + 1,
                             !.out.big.size = size]
             ELSE [bn EXCEPT !.op = "set_size", !.calls = @ + 1,
                             !.pc = "panicked", !.out = [kind |-> "panic"]]
    /\ UNCHANGED <<handle, aesVars, pka, pkaRam, isr>>

IsrNone ==
    [op |-> "none", busy |-> FALSE, ret |-> NoReturn, during |-> "idle",
     calls |-> 0]

\* a second caller (an interrupt handler) calls a Crypto big-number
\* function on slices while the main caller is wherever it is; the handler
\* runs to its return before the main caller goes on
IsrCall(op, x, y, z) ==
    /\ bn.pc # "panicked"
    /\ isr.calls < MaxIsrCalls
    /\ IF is_pka_in_use(pka)
       THEN /\ isr' = [op |-> op, busy |-> TRUE, ret |-> BusyReturn(op),
                       during |-> bn.pc, calls |-> isr.calls + 1]
            /\ UNCHANGED <<pka, pkaRam>>
       ELSE LET w == WriteOperands(pka, pkaRam, op, x, y, z)
                c == PkaCompute(StartOp(w.pka, op), w.ram)
                f == FinishOp(c.pka, c.ram, op, x, y, w.start, Zeros(MAX_LEN))
            IN /\ pka' = c.pka
               /\ pkaRam' = c.ram
               /\ isr' = [op |-> op, busy |-> FALSE, ret |-> f.ret,
                          during |-> bn.pc, calls |-> isr.calls + 1,
                          x |-> x, y |-> y, z |-> z, result |-> f.result]
    /\ UNCHANGED <<handle, aesVars, bn>>

\* ecc_mul or ecc_add called on slices, from its busy check to its return;
\* the sequencer ends with `status` in the shift register
EccCall(op, x, y, z, status) ==
    /\ bn.pc # "panicked"
    /\ isr.calls < MaxIsrCalls
    /\ IF is_pka_in_use(pka)
       THEN /\ isr' = [op |-> op, busy |-> TRUE, ret |-> BusyReturn(op),
                       during |-> bn.pc, calls |-> isr.calls + 1]
            /\ UNCHANGED <<pka, pkaRam>>
       ELSE LET w == WriteOperands(pka, pkaRam, op, x, y, z)
                c == PkaCompute(StartOp(w.pka, op), w.ram)
                done == [c.pka EXCEPT !.shift = status]
                f == FinishOp(done, c.ram, op, x, y, w.start, Zeros(MAX_LEN))
            IN /\ pka' = done
               /\ pkaRam' = c.ram
               /\ isr' = [op |-> op, busy |-> FALSE, ret |-> f.ret,
                          during |-> bn.pc, calls |-> isr.calls + 1,
                          x |-> x, y |-> y, z |-> z, result |-> f.result,
                          status |-> status]
    /\ UNCHANGED <<handle, aesVars, bn>>

----------------------------------------------------------------------------
(* The calls made to the PKA unit. *)

TwoOps == {"add", "sub", "mul", "modulo", "inv_modulo", "cmp"}
ThreeOps == {"add_sub", "exp"}

\* a BigNum that uses its whole buffer
Full == [i \in 1..MAX_LEN |-> IF i = 1 THEN 1 ELSE 0]

Operands == {<<1>>, <<1, 1>>, Full}
Thirds == {<<1>>, <<1, 1>>}

\* one caller, BigNum methods
NextBn ==
    \/ \E op \in TwoOps, x \in Operands, y \in Operands : BnCall(op, x, y, <<>>)
    \/ \E op \in ThreeOps, x \in Operands, y \in Operands, z \in Thirds :
          BnCall(op, x, y, z)
    \/ BnSubOfSum
    \/ BnWrite
    \/ BnStart
    \/ HwComplete
    \/ BnFinish

\* the sizes given to BigNum::new and set_size: the parameter is any usize
BigNumSizes == 0..(MAX_LEN + 1)

\* one caller: BigNum values made, resized and computed with
NextBigNum ==
    \/ NextBn
    \/ \E n \in BigNumSizes : BnNew(n)
    \/ \E n \in BigNumSizes : BnSetSize(n)

\* status codes of the sequencer: success, no inverse, failure, and two
\* codes that stand for the values the driver has no arm for
StatusCodes == {0, 7, 31, 1, 30}

\* one caller inverting, the hardware ending with any status
NextInv ==
    \/ \E x \in Operands, y \in Operands : BnCall("inv_modulo", x, y, <<>>)
    \/ BnWrite
    \/ BnStart
    \/ HwComplete
    \/ \E code \in StatusCodes : HwCompleteStatus(code)
    \/ BnFinish

\* operands of one length, as add_sub needs them: it programs the length
\* of A alone
PairOperands == {<<1, 0>>, <<0, 1>>, <<1, 1>>}

\* one caller adding, subtracting and multiplying short numbers
NextReadBack ==
    \/ \E op \in {"add", "sub"}, x \in PairOperands, y \in PairOperands :
          BnCall(op, x, y, <<>>)
    \/ \E x \in PairOperands \cup {<<1>>} : BnCall("mul", x, <<1>>, <<>>)
    \/ \E x \in PairOperands, c \in PairOperands, b \in PairOperands :
          BnCall("add_sub", x, c, b)
    \/ BnWrite
    \/ BnStart
    \/ HwComplete
    \/ BnFinish

EccOps == {"ecc_mul", "ecc_add"}

\* the operands of the main caller and those of the second caller
MainX == <<1>>
MainY == <<1, 1>>
MainZ == <<1>>
IsrX == <<1, 1>>
IsrY == <<1>>
IsrZ == <<1>>
EccX == <<1, 1>>
EccY == <<1, 0>>
EccZ == <<0, 1>>

\* two callers of the PKA functions: the main program and an interrupt
\* handler that may run between any two steps of it
NextPka2 ==
    \/ \E op \in TwoOps \cup ThreeOps : BnCall(op, MainX, MainY, MainZ)
    \/ BnWrite
    \/ BnStart
    \/ HwComplete
    \/ BnFinish
    \/ \E op \in TwoOps \cup ThreeOps : IsrCall(op, IsrX, IsrY, IsrZ)
    \/ \E op \in EccOps : IsrCall(op, EccX, EccY, EccZ)

\* one caller: big-number and EC operations one after another
NextSeq ==
    \/ \E op \in TwoOps \cup ThreeOps : BnCall(op, MainX, MainY, MainZ)
    \/ \E op \in EccOps, x \in {EccX, EccY} : EcCall(op, x, EccY, EccZ)
    \/ BnWrite
    \/ BnStart
    \/ HwComplete
    \/ \E code \in StatusCodes : HwCompleteStatus(code)
    \/ BnFinish

\* the scalars and coordinates handed to ecc_mul and ecc_add
EccWords == {<<1, 1>>, <<1, 0>>, <<0, 1>>}

\* an EC call, whatever status the sequencer ends with, at any point of
\* an addition the main program makes
NextEcc ==
    \/ (bn.calls = 0 /\ BnCall("add", MainX, MainY, <<>>))
    \/ BnWrite
    \/ BnStart
    \/ HwComplete
    \/ BnFinish
    \/ \E op \in EccOps, x \in EccWords, y \in EccWords, status \in StatusCodes :
          EccCall(op, x, y, EccZ, status)

\* the calls made to the AES unit next to those made to the PKA
BusyKey == AesKeysCreate(1, Key128, 0)
BusyCtr == [i \in 1..16 |-> 2]

BusyInfo == [key_index |-> 0, len_field_size |-> 2, auth_field_size |-> 4,
             adata |-> <<>>]

\* both units: the main program makes one addition while the handler
\* calls any PKA function, and the AES unit is called without being reset
\* in between
NextBusy ==
    \/ (bn.calls = 0 /\ BnCall("add", MainX, MainY, <<>>))
    \/ BnWrite
    \/ BnStart
    \/ HwComplete
    \/ BnFinish
    \/ \E op \in TwoOps \cup ThreeOps : IsrCall(op, IsrX, IsrY, IsrZ)
    \/ \E op \in EccOps : IsrCall(op, EccX, EccY, EccZ)
    \/ LoadKey(BusyKey, "none")
    \/ CtrEncrypt(0, <<>>, BusyCtr, <<1>>, "none")
    \/ CtrDecrypt(0, <<>>, BusyCtr, <<1>>, "none")
    \/ CcmEncrypt(BusyInfo, CcmNonceFor(BusyInfo), <<1>>, "none")
    \/ CcmDecrypt(BusyInfo, CcmNonceFor(BusyInfo), <<1>>, "none")
    \/ Sha256Call(BLOCK_SIZE + 1)
    \/ Sha256Prime
    \/ Sha256Stream
    \/ Sha256Finalize

\* what the stepwise auth_crypt is called with: CTR without associated
\* data, CCM with none, an empty one and one of one byte
WaitCalls ==
    {[ctrl |-> CtrCtrl(CtrFor(<<>>), TRUE), adata |-> <<>>]} \cup
    {[ctrl |-> CcmCtrl(NoCtrl, i, TRUE), adata |-> a] :
        i \in {BusyInfo}, a \in {<<>>, <<<<>>>>, <<<<1>>>>}}

NextWait ==
    \/ LoadKey(BusyKey, "none")
    \/ \E c \in WaitCalls, k \in KeyIndices, d \in Messages \cup {<<>>} :
          AcBegin(c.ctrl, k, c.adata, d, Zeros(Len(d)))
    \/ \E f \in EndFlags \cup {"dma_in_done"} : HwRaise(f)
    \/ AcStep
    \/ ResetAes

\* input lengths around the largest a 16-bit transfer length can hold
LongLens == {1, TwoTo16 - 1, TwoTo16, TwoTo16 + 1}

\* auth_crypt given short and long inputs
NextLen ==
    \/ LoadKey(BusyKey, "none")
    \/ \E c \in WaitCalls, n \in LongLens :
          AcBegin(c.ctrl, 0, c.adata, Zeros(n), Zeros(n))
    \/ \E f \in EndFlags \cup {"dma_in_done"} : HwRaise(f)
    \/ AcStep
    \/ ResetAes

\* nonces and counters of distinct bytes, the nonce ending at a word
\* boundary and inside a word
IvNonceLens == {0, 5, 12}
IvNonce(n) == [j \in 1..n |-> j]
IvCtr(n) == [j \in 1..n |-> 20 + j]

\* CCM with length fields of 2, 3 and 8 bytes
IvInfos ==
    {[key_index |-> 0, len_field_size |-> l, auth_field_size |-> 4, adata |-> <<>>] :
        l \in {2, 3, 8}}

\* the calls that program the IV, the unit reset and its key loaded again
\* in between
NextIv ==
    \/ LoadKey(BusyKey, "none")
    \/ \E n \in IvNonceLens, d \in Messages :
          CtrEncrypt(0, IvNonce(n), IvCtr(16 - n), d, "none")
    \/ \E n \in IvNonceLens, d \in Messages :
          CtrDecrypt(0, IvNonce(n), IvCtr(16 - n), d, "none")
    \/ \E i \in IvInfos, d \in Messages :
          CcmEncrypt(i, IvNonce(CCM_NONCE_LEN - i.len_field_size), d, "none")
    \/ \E i \in IvInfos, d \in Messages :
          CcmDecrypt(i, IvNonce(CCM_NONCE_LEN - i.len_field_size), d, "none")
    \/ ResetAes

----------------------------------------------------------------------------
(* The typestate of the handle (crypto/mod.rs): Crypto<'p, State>.  A mode *)
(* function takes self by value and returns the handle in the new state;   *)
(* the handle is not Clone.                                                *)

AesModes == {"AesCtr", "AesCbc", "AesCbcMac", "AesEcb", "AesGcm", "AesCcm"}

AesEngineOf(m) == <<"AesEngine", m>>

\* the states whose type is Crypto<'p, AesEngine<Type>>
AesStates == {AesEngineOf(m) : m \in AesModes \cup {"NotSpecified"}}

ModeFunctionsBetweenModes ==
    {[name |-> "any", from |-> a, to |-> b] : a \in AesStates, b \in AesStates}
    \cup {[name |-> "aes_engine", from |-> <<"NotSpecified">>,
            to |-> AesEngineOf("NotSpecified")]}

\* the functions that consume the handle, with the state they are
\* implemented for and the state they return
ModeFunctions ==
    {[name |-> "aes_engine", from |-> <<"NotSpecified">>,
      to |-> AesEngineOf("NotSpecified")],
     [name |-> "ecc_engine", from |-> <<"NotSpecified">>, to |-> <<"EccEngine">>],
     [name |-> "sha256_engine", from |-> <<"NotSpecified">>,
      to |-> <<"Sha256Engine">>]}
    \cup {[name |-> m, from |-> AesEngineOf("NotSpecified"), to |-> AesEngineOf(m)] :
             m \in AesModes}

\* self is moved into the mode function
Consume(f) ==
    /\ handle = f.from
    /\ handle' = f.to
    /\ UNCHANGED <<aesVars, pkaVars>>

\* what an operation is called on: a handle (&mut self) or nothing
Receiver(op) ==
    IF op \in TwoOps \cup ThreeOps THEN "none" ELSE "handle"

\* the states of the handle an operation is implemented for
ImplementedFor(op) ==
    CASE op \in {"load_key", "auth_crypt"} -> AesStates
      [] op = "ccm_encrypt" -> {AesEngineOf("AesCcm")}
      [] op = "sha256" -> {<<"Sha256Engine">>}
      [] op \in EccOps -> {<<"EccEngine">>}

\* the operation can be called with the handle as it is
Callable(op) == Receiver(op) = "handle" => handle \in ImplementedFor(op)

\* the operations the program can call, the handle in any of its states;
\* CTR is auth_crypt given the control word and IV of ctr_encrypt
NextHandle ==
    \/ \E f \in ModeFunctions : Consume(f)
    \/ (Callable("load_key") /\ LoadKey(BusyKey, "none"))
    \/ (Callable("auth_crypt") /\ CtrEncrypt(0, <<>>, BusyCtr, <<1>>, "none"))
    \/ (Callable("ccm_encrypt")
          /\ CcmEncrypt(BusyInfo, CcmNonceFor(BusyInfo), <<1>>, "none"))
    \/ (Callable("sha256") /\ Sha256Call(BLOCK_SIZE + 1))
    \/ Sha256Prime
    \/ Sha256Stream
    \/ Sha256Finalize
    \/ \E op \in EccOps : (Callable(op) /\ IsrCall(op, EccX, EccY, EccZ))
    \/ \E op \in {"add", "mul"} :
          (Callable(op) /\ bn.calls = 0 /\ BnCall(op, MainX, MainY, <<>>))
    \/ BnWrite
    \/ BnStart
    \/ HwComplete
    \/ BnFinish

----------------------------------------------------------------------------
(* The key buffers a program can build and load. *)

\* start areas given to AesKeys::create: the parameter is any u8
KeyStartAreas == {0, 6, 7, 8}

BuiltAesKeys ==
    {AesKeysCreate(1, s, a) : s \in KeySizes, a \in KeyStartAreas}

NextKeys ==
    \/ \E k \in BuiltAesKeys, hw \in HwLoad : LoadKey(k, hw)
    \/ ResetAes

----------------------------------------------------------------------------
(* Specifications. *)

Init ==
    /\ handle = <<"NotSpecified">>
    /\ aes = AesResetRegs
    /\ aesLast = NoAesCall
    /\ sha = ShaIdle
    /\ pka = PkaResetRegs
    /\ pkaRam = PkaRamReset
    /\ bn = BnIdle
    /\ isr = IsrNone

NextSha ==
    \/ \E n \in 1..MaxShaLen : Sha256Call(n)
    \/ Sha256Prime
    \/ Sha256Stream
    \/ Sha256Finalize

SpecSha == Init /\ [][NextSha]_vars

SpecAes == Init /\ [][NextAes]_vars

SpecBn == Init /\ [][NextBn]_vars

SpecPka2 == Init /\ [][NextPka2]_vars

SpecBusy == Init /\ [][NextBusy]_vars

SpecHandle == Init /\ [][NextHandle]_vars

SpecKeys == Init /\ [][NextKeys]_vars

SpecBigNum == Init /\ [][NextBigNum]_vars

SpecInv == Init /\ [][NextInv]_vars

SpecReadBack == Init /\ [][NextReadBack]_vars

SpecWait == Init /\ [][NextWait]_vars

SpecIv == Init /\ [][NextIv]_vars

SpecEcc == Init /\ [][NextEcc]_vars

SpecSeq == Init /\ [][NextSeq]_vars

SpecLen == Init /\ [][NextLen]_vars

----------------------------------------------------------------------------
(* Properties of SHA-256. *)

RECURSIVE ConcatBlocks(_)
\* the bytes handed to the hash engine by a sequence of engine operations
ConcatBlocks(ops) ==
    IF ops = <<>> THEN <<>> ELSE ops[1].block \o ConcatBlocks(Tail(ops))

IsPrefix(p, d) == Len(p) <= Len(d) /\ SubSeq(d, 1, Len(p)) = p

\* C3: for a non-empty input, sha256 writes the standard SHA-256 digest of
\* the input: the blocks handed to the engine, concatenated, are the input
\* (no byte missing, repeated or out of order; at every moment a prefix of
\* it), and the padding is applied once, on the last block, with the length
\* of the whole input in bits.
C3_Sha256StandardDigest ==
    /\ sha.pc # "panicked"
    /\ IsPrefix(ConcatBlocks(sha.ops), sha.data)
    /\ (aesLast.op = "sha256" /\ aesLast.ran /\ aesLast.done) =>
          /\ ConcatBlocks(sha.ops) = aesLast.data
          /\ \A i \in 1..Len(sha.ops) : sha.ops[i].pad <=> (i = Len(sha.ops))
          /\ aesLast.digest = Sha256Digest(aesLast.data)

\* a completed sha256 over an input of more than two blocks
C3_Witness ==
    /\ aesLast.op = "sha256" /\ aesLast.ran /\ aesLast.done
    /\ Len(aesLast.data) > 2 * BLOCK_SIZE
    /\ Len(sha.ops) = 3
    /\ aesLast.digest = Sha256Digest(aesLast.data)

\* C4: a sha256 call that follows a sha256 call which ran is not skipped as
\* busy; each call that ran leaves the algorithm selection at zero and has
\* written a digest.
C4_ConsecutiveSha256Run ==
    /\ (aesLast.op = "sha256" /\ aesLast.after = <<"sha256", TRUE>>) => aesLast.ran
    /\ (aesLast.op = "sha256" /\ aesLast.ran /\ aesLast.done) =>
          /\ aes.alg_sel = {}
          /\ aesLast.digest # NoDigest

\* a sha256 call completed right after another sha256 call that ran
C4_Witness ==
    /\ aesLast.op = "sha256" /\ aesLast.after = <<"sha256", TRUE>>
    /\ aesLast.ran /\ aesLast.done
    /\ aesLast.digest = Sha256Digest(aesLast.data)
    /\ aes.alg_sel = {}

----------------------------------------------------------------------------
(* Properties of CTR and CCM. *)

\* C1: after load_key has stored a key in slot k, ctr_encrypt followed by
\* ctr_decrypt with the same key index, nonce and counter, with no reset of
\* the engine in between, both execute, and the decryption gives back the
\* plaintext.
C1_CtrRoundTrip ==
    (aesLast.op = "ctr_decrypt" /\ aesLast.rt # <<>>) =>
        /\ aesLast.ran
        /\ aesLast.ok => aesLast.out = aesLast.rt[1]

\* C2: after load_key, ccm_encrypt followed by ccm_decrypt with the same
\* parameters gives back the plaintext, and a second identical ccm_encrypt
\* gives the same tag as the first.
C2_CcmRoundTrip ==
    /\ (aesLast.op = "ccm_decrypt" /\ aesLast.rt # <<>>) =>
          /\ aesLast.ran
          /\ aesLast.ok => aesLast.out = aesLast.rt[1]
    /\ (aesLast.op = "ccm_encrypt" /\ aesLast.twin # <<>>) =>
          aesLast.tag = aesLast.twin[1]

----------------------------------------------------------------------------
(* Properties of the big-number operations. *)

\* the sum of the two operands fits the capacity of the BigNum
SumFits(x, y) == ValueOf(x) + ValueOf(y) < Pow(WordBase, MAX_LEN)

BnReturned == bn.pc \in {"idle", "panicked"}

\* C5: for operands a and b whose sum fits the capacity, a.add(b) returns
\* Ok with the sum, and .sub(b) on that result returns Ok with the value
\* of a.
C5_AddThenSub ==
    /\ (bn.op = "add" /\ BnReturned /\ SumFits(bn.x, bn.y)) =>
          /\ bn.out.kind = "Ok"
          /\ ValueOf(Inner(bn.out.big)) = ValueOf(bn.x) + ValueOf(bn.y)
    /\ (bn.op = "sub" /\ bn.orig # <<>> /\ BnReturned) =>
          /\ bn.out.kind = "Ok"
          /\ ValueOf(Inner(bn.out.big)) = ValueOf(bn.orig[1])

\* C6: when the accelerator reports that there is no modular inverse
\* (status 7), inv_modulo returns Err(NoSolution), BigNum::inv_mod returns
\* the same error and never Ok, and the result buffer is left as it was.
C6_NoInverseIsNoSolution ==
    (bn.op = "inv_modulo" /\ bn.pc = "idle" /\ ~bn.busy /\ pka.shift = 7) =>
        /\ bn.ret = [kind |-> "Err", err |-> "NoSolution"]
        /\ bn.out = [kind |-> "Err", err |-> "NoSolution"]
        /\ bn.result = Zeros(Len(bn.result))

\* inv_mod of 3 modulo 3 has returned: the accelerator found no inverse
C6_Witness ==
    /\ bn.op = "inv_modulo" /\ bn.pc = "idle" /\ ~bn.busy
    /\ pka.shift = 7 /\ pka.function = "modinv" /\ ~pka.run
    /\ Gcd(ValueOf(bn.x), ValueOf(bn.y)) > 1
    /\ bn.out = [kind |-> "Err", err |-> "NoSolution"]

----------------------------------------------------------------------------
(* Properties of a call made while the unit is busy. *)

AesCalls ==
    {"load_key", "ctr_encrypt", "ctr_decrypt", "ccm_encrypt", "ccm_decrypt",
     "sha256"}

\* C7: a call that finds its unit busy (the PKA run flag set for a
\* big-number or EC function, the algorithm selection non-zero for
\* load_key, CTR, CCM and sha256) writes no register of either unit and no
\* word of PKA RAM, and goes no further than its return.
C7_BusyCallWritesNothing ==
    [][
        /\ (isr'.calls # isr.calls /\ pka.run) =>
              /\ pka' = pka /\ pkaRam' = pkaRam /\ aes' = aes
              /\ isr'.busy
        /\ (/\ aesLast' # aesLast /\ aesLast'.op \in AesCalls
            /\ sha.pc = "idle" /\ aes.alg_sel # {}) =>
              /\ aes' = aes /\ pka' = pka /\ pkaRam' = pkaRam
              /\ sha'.pc = "idle" /\ ~aesLast'.ran
    ]_vars

\* an EC function was called while the run flag was set, and sha256 while
\* the algorithm selection was non-zero
C7_Witness ==
    /\ isr.op \in EccOps /\ isr.busy /\ isr.during = "wait"
    /\ aesLast.op = "sha256" /\ ~aesLast.ran /\ aes.alg_sel # {}

\* what a call of op that ran to its end can return
CompletedReturns(op) ==
    CASE op = "exp" -> {[kind |-> "unit"]}
      [] op = "cmp" -> {[kind |-> "Some", ord |-> o] : o \in {"Equal", "Less", "Greater"}}
      [] op = "inv_modulo" ->
           {[kind |-> "Ok"], [kind |-> "Err", err |-> "NoSolution"],
            [kind |-> "Err", err |-> "PkaFailure"]}
      [] OTHER -> {[kind |-> "Ok", len |-> n] : n \in 0..(2 * MAX_LEN)}

\* C8: a big-number function called while the run flag is set returns a
\* value that no completed call of that function returns.
C8_BusyIsToldApart ==
    /\ (isr.busy /\ isr.op \in TwoOps \cup ThreeOps) =>
          isr.ret \notin CompletedReturns(isr.op)
    /\ (bn.pc = "idle" /\ bn.op # "none" /\ ~bn.busy) =>
          bn.ret \in CompletedReturns(bn.op)

\* C9: of two callers at most one is between its busy check and its
\* return, so a call made while the other is in between is turned away,
\* and the operands and the pointer and length registers an operation was
\* given are still in place until the hardware has run on them.
C9_OneOperationInFlight ==
    /\ (isr.op # "none" /\ isr.during \in {"write", "start", "wait"}) => isr.busy
    /\ (bn.pc = "start" \/ (bn.pc = "wait" /\ pka.run)) =>
          LET w == WriteOperands(pka, pkaRam, bn.op, bn.x, bn.y, bn.z)
          IN w.pka = pka /\ w.ram = pkaRam /\ w.start = bn.start

----------------------------------------------------------------------------
(* Properties of the handle. *)

\* the state of the handle that stands for the mode of an operation; the
\* big-number functions use the PKA, which the handle has in EccEngine
ModeState(op) ==
    CASE op \in {"ctr_encrypt", "ctr_decrypt"} -> AesEngineOf("AesCtr")
      [] op \in {"ccm_encrypt", "ccm_decrypt"} -> AesEngineOf("AesCcm")
      [] op = "sha256" -> <<"Sha256Engine">>
      [] OTHER -> <<"EccEngine">>

\* C10: an operation of a mode is called on the handle, and only while the
\* handle is in the state of that mode: whenever an AES-CTR, AES-CCM,
\* SHA-256, EC or big-number operation has been issued, it had the handle
\* as its receiver and the handle is in that mode's state.
C10_IssuedThroughHandleInMode ==
    /\ aesLast.op \in {"ctr_encrypt", "ccm_encrypt", "sha256"} =>
          handle = ModeState(aesLast.op)
    /\ isr.op \in EccOps => handle = ModeState(isr.op)
    /\ bn.op # "none" =>
          /\ Receiver(bn.op) = "handle"
          /\ handle = ModeState(bn.op)

\* the moves of the handle the state machine allows
AllowedMoves ==
    {<<<<"NotSpecified">>, t>> :
        t \in {AesEngineOf("NotSpecified"), <<"EccEngine">>, <<"Sha256Engine">>}}
    \cup {<<AesEngineOf("NotSpecified"), AesEngineOf(m)>> : m \in AesModes}

----------------------------------------------------------------------------
(* Properties of the caller's buffers. *)

\* C12: a sha256, ctr_encrypt, ctr_decrypt, ccm_encrypt or ccm_decrypt
\* call that found the unit busy leaves the buffers it was given as they
\* were: the digest, the output data and the tag are still zero-filled.
C12_BusyLeavesBuffers ==
    (aesLast.op \in AesCalls \ {"load_key"} /\ ~aesLast.ran) =>
        /\ aesLast.op = "sha256" => aesLast.digest = NoDigest
        /\ aesLast.op # "sha256" => aesLast.out = Zeros(Len(aesLast.out))
        /\ aesLast.op = "ccm_encrypt" => aesLast.tag = NoTag

\* C13: while sha256 runs, the count of buffered bytes is at most 64, and
\* it is 64 only while a full block waits to be handed to the engine: the
\* input is used up and the 64 bytes in the buffer are the ones that follow
\* the blocks already handed over.
C13_BufferedBelowBlock ==
    sha.pc \in {"prime", "stream"} =>
        /\ sha.st.curlen <= BLOCK_SIZE
        /\ sha.st.curlen = BLOCK_SIZE =>
              /\ sha.len = 0
              /\ ConcatBlocks(sha.ops) \o sha.st.buf = SubSeq(sha.data, 1, sha.offset)

\* a full block is buffered and waits for finalize
C13_Witness ==
    /\ sha.pc = "stream"
    /\ sha.st.curlen = BLOCK_SIZE
    /\ Len(sha.ops) = 1

----------------------------------------------------------------------------
(* Properties of the key store. *)

\* C14: a key buffer that AesKeys::create returned and load_key took
\* (the call passed the busy check) has start_area + count <= 8, so the
\* areas load_key writes to the key store registers are among areas 0..7.
C14_KeyAreasWithinStore ==
    (aesLast.op = "load_key" /\ aesLast.ran) =>
        /\ aesLast.keys.start_area + aesLast.keys.count <= 8
        /\ AreasOf(aesLast.keys) \subseteq KeyAreas

----------------------------------------------------------------------------
(* Properties of BigNum values. *)

\* C15: every BigNum value that new, set_size or an arithmetic method has
\* returned has an active length of at most its capacity MAX_LEN.
C15_SizeWithinCapacity ==
    bn.out.kind \in {"Ok", "Big"} => bn.out.big.size <= MAX_LEN

----------------------------------------------------------------------------
(* Properties of the layout in PKA RAM. *)

\* C16: the vectors A, B, C and D of every big-number and EC operation
\* start at an offset that is a multiple of 8 bytes, that is of two words:
\* the pointer registers, which hold word offsets, are even.
C16_VectorsAligned ==
    /\ pka.aptr % 2 = 0
    /\ pka.bptr % 2 = 0
    /\ pka.cptr % 2 = 0
    /\ pka.dptr % 2 = 0

----------------------------------------------------------------------------
(* Properties of the status and result registers. *)

\* C17: an inv_modulo call that has come back from the wait with a status
\* other than 0 (success) and 7 (no inverse) has returned PkaFailure: it
\* has neither panicked nor returned Ok.
C17_OtherStatusIsFailure ==
    (/\ bn.op = "inv_modulo" /\ bn.ret # NoReturn /\ ~bn.busy
     /\ bn.pc \in {"idle", "panicked"}
     /\ pka.shift \notin {0, 7}) =>
        bn.ret = [kind |-> "Err", err |-> "PkaFailure"]

\* the operations that hand back a result vector and the register flags
ResultOps == {"add", "sub", "add_sub", "mul", "modulo", "exp"}

\* C18: a big-number operation that has come back from the wait with the
\* result-is-zero flag set has reported the length 0 and left the result
\* buffer of the caller all zero.
C18_ZeroResultIsLengthZero ==
    (/\ bn.op \in ResultOps /\ bn.pc = "idle" /\ bn.ret # NoReturn /\ ~bn.busy
     /\ pka.result_is_zero) =>
        /\ bn.op # "exp" => bn.ret = [kind |-> "Ok", len |-> 0]
        /\ bn.result = Zeros(Len(bn.result))

\* the result length of the operations table
ContractLength(op, x, y) ==
    CASE op = "add" -> Max(Len(x), Len(y)) + 1
      [] op = "sub" -> Max(Len(x), Len(y))
      [] op = "add_sub" -> Len(x)
      [] op = "mul" -> Len(x) + Len(y)

\* C19: an add, sub, add_sub or mul that has come back from the wait has
\* read msw - result base + 1 words (none when the result is zero), that
\* count is at most the length the operations table gives the operation,
\* and the read stayed inside the result buffer of the wrapper: the call
\* returned Ok and did not panic.
C19_ReadBackWithinContract ==
    (/\ bn.op \in {"add", "sub", "add_sub", "mul"}
     /\ bn.ret # NoReturn /\ ~bn.busy /\ bn.pc \in {"idle", "panicked"}) =>
        /\ pka.msw - bn.start + 1 <= ContractLength(bn.op, bn.x, bn.y)
        /\ bn.ret.kind = "Ok"
        /\ bn.ret.len = IF pka.result_is_zero THEN 0 ELSE pka.msw - bn.start + 1

\* C20: a call of auth_crypt that got as far as the mode closure wrote the
\* associated-data length register exactly when the control register, as
\* it reads after the closure, selects CCM (the model has no GCM caller),
\* whether or not the caller supplied associated data.
C20_AuthLengthWrittenByMode ==
    (/\ aesLast.op \in {"ctr_encrypt", "ctr_decrypt", "ccm_encrypt", "ccm_decrypt"}
     /\ aesLast.ran
     /\ aesLast.eng # <<>>) =>
        (aesLast.eng[1].auth_written <=> aesLast.eng[1].aes_ctrl.ccm)

\* C21: while auth_crypt polls after a transfer was started, a raised
\* DMA bus error, key-store read error, key-store write error or
\* result-available ends the poll it is in: the call is never left
\* waiting for another flag.
C21_RaisedFlagEndsWait ==
    (/\ aesLast.op = "auth_crypt" /\ ~aesLast.done
     /\ aes.int_stat \cap EndFlags # {}) =>
        PolledAt(aesLast.pc) \cap aes.int_stat # {}

\* byte k (0 the least significant) of a 32-bit word
ByteOfWord(w, k) == (w \div (256 ^ k)) % 256

\* byte j of the IV as the registers hold it, byte 1 the least significant
\* byte of aes_iv_0
IvRegByte(call, j) == ByteOfWord(call.eng[1].iv_regs[((j - 1) \div 4) + 1], (j - 1) % 4)

\* C22: a ctr_encrypt or ctr_decrypt that gets to the IV, given a nonce
\* and a counter of 16 bytes together, leaves in the four IV registers,
\* read as little-endian words, the nonce followed by the counter.
C22_CtrIvIsNonceThenCounter ==
    (/\ aesLast.op \in {"ctr_encrypt", "ctr_decrypt"}
     /\ aesLast.ran /\ aesLast.eng # <<>>) =>
        LET nonce == aesLast.params[2]
            ctr == aesLast.params[3]
        IN \A j \in 1..16 :
              IvRegByte(aesLast, j) =
                 IF j <= Len(nonce) THEN nonce[j] ELSE ctr[j - Len(nonce)]

\* a CTR call whose nonce ends inside a word has programmed the IV
C22_Witness ==
    /\ aesLast.op \in {"ctr_encrypt", "ctr_decrypt"}
    /\ aesLast.ran /\ aesLast.eng # <<>>
    /\ Len(aesLast.params[2]) = 5

\* C23: a ccm_encrypt or ccm_decrypt that gets to the IV, given a length
\* field of L bytes and a nonce of 15 - L bytes, leaves in the IV registers
\* 16 bytes: L - 1, then the nonce, then L zero bytes.
C23_CcmIvIsFlagsNonceZeros ==
    (/\ aesLast.op \in {"ccm_encrypt", "ccm_decrypt"}
     /\ aesLast.ran /\ aesLast.eng # <<>>) =>
        LET L == aesLast.params[1].len_field_size
            nonce == aesLast.params[2]
        IN /\ Len(nonce) = 15 - L
           /\ IvRegByte(aesLast, 1) = L - 1
           /\ \A j \in 2..(16 - L) : IvRegByte(aesLast, j) = nonce[j - 1]
           /\ \A j \in (17 - L)..16 : IvRegByte(aesLast, j) = 0

\* a CCM decryption with a length field of three bytes has programmed the IV
C23_Witness ==
    /\ aesLast.op = "ccm_decrypt"
    /\ aesLast.ran /\ aesLast.eng # <<>>
    /\ aesLast.params[1].len_field_size = 3

\* C24: a sha256 that ran over n >= 1 bytes has issued ceil(n / 64) engine
\* operations: the first a new hash, each later one a resumed hash; all
\* but the last transfer 64 bytes without padding, the last transfers the
\* remaining 1 to 64 bytes with the padding enabled.
C24_OneOperationPerBlock ==
    (aesLast.op = "sha256" /\ aesLast.ran /\ aesLast.done) =>
        LET n == Len(aesLast.data)
            k == (n + BLOCK_SIZE - 1) \div BLOCK_SIZE
        IN /\ Len(sha.ops) = k
           /\ \A i \in 1..k :
                 /\ sha.ops[i].kind = IF i = 1 THEN "new" ELSE "resume"
                 /\ sha.ops[i].pad <=> (i = k)
                 /\ Len(sha.ops[i].block) =
                       IF i < k THEN BLOCK_SIZE ELSE n - BLOCK_SIZE * (k - 1)
           /\ Len(sha.ops[k].block) \in 1..BLOCK_SIZE

\* a completed sha256 over exactly two blocks: the second, of 64 bytes, is
\* the padded one
C24_Witness ==
    /\ aesLast.op = "sha256" /\ aesLast.ran /\ aesLast.done
    /\ Len(aesLast.data) = 2 * BLOCK_SIZE
    /\ Len(sha.ops) = 2
    /\ sha.ops[2].kind = "resume" /\ sha.ops[2].pad

\* C25: the length the final operation of a sha256 over n >= 1 bytes
\* writes to the two hash length registers is 8 * n (the high register 0
\* for every input below 2^29 bytes).
C25_FinalLengthInBits ==
    (aesLast.op = "sha256" /\ aesLast.ran /\ aesLast.done) =>
        /\ sha.ops # <<>>
        /\ sha.ops[Len(sha.ops)].bits = <<8 * Len(aesLast.data), 0>>

\* a completed sha256 over one whole block and one byte more
C25_Witness ==
    /\ aesLast.op = "sha256" /\ aesLast.ran /\ aesLast.done
    /\ Len(aesLast.data) = BLOCK_SIZE + 1
    /\ sha.ops[2].bits = <<8 * (BLOCK_SIZE + 1), 0>>

\* C26: an ecc_mul or ecc_add that found the PKA free returns PkaFailure
\* whenever the shift register, read once the sequencer has stopped, is
\* neither 0 nor 7, and has written the caller's buffer only if it is 0
\* or 7.
C26_EccStatusChecked ==
    (isr.op \in EccOps /\ ~isr.busy /\ isr.ret # NoReturn) =>
        /\ isr.status \notin {0, 7} =>
              isr.ret = [kind |-> "Err", err |-> "PkaFailure"]
        /\ isr.result # Zeros(MAX_LEN) => isr.status \in {0, 7}

\* an ecc_mul ended by a status that is neither 0 nor 7
C26_Witness ==
    /\ isr.op = "ecc_mul" /\ ~isr.busy
    /\ isr.status = 1
    /\ isr.ret = [kind |-> "Err", err |-> "PkaFailure"]
    /\ isr.result = Zeros(MAX_LEN)

\* C27: a load_key, CTR or CCM call that passed its busy check has left
\* the algorithm selection at zero when it returns, on its error returns
\* too: the engine does not read as in use after the call.
C27_AlgSelZeroOnReturn ==
    (/\ aesLast.op \in {"load_key", "ctr_encrypt", "ctr_decrypt",
                        "ccm_encrypt", "ccm_decrypt"}
     /\ aesLast.ran /\ aesLast.done) =>
        aes.alg_sel = {}

\* C28: with one caller issuing big-number and EC operations one after
\* another, an operation has returned only with the run flag clear, so no
\* operation of the sequence finds the PKA busy or returns PkaBusy.
C28_SequenceNeverBusy ==
    /\ bn.pc \in {"idle", "panicked"} => ~pka.run
    /\ ~bn.busy
    /\ bn.ret # [kind |-> "Err", err |-> "PkaBusy"]

\* an ecc_mul issued as the second operation of a sequence has returned Ok
C28_Witness ==
    /\ bn.calls = 2 /\ bn.pc = "idle"
    /\ bn.op = "ecc_mul"
    /\ bn.ret = [kind |-> "Ok"]

\* C29: once auth_crypt has programmed the input transfer on DMA channel
\* 0, the transfer length it programmed equals the length it wrote to the
\* crypto length register, for every input length explored (all below
\* 2^32).
C29_TransferLengthIsCryptoLength ==
    (aesLast.op = "auth_crypt" /\ aesLast.ran /\ ~aesLast.done
     /\ aesLast.dma0 # <<>>) =>
        aesLast.dma0[1] = aesLast.c_length

\* C30: whenever sha256 is about to take the accumulate branch, in the
\* prime phase or in the streaming loop, the carry buffer is empty
\* (curlen = 0), so buf[curlen..n] has the n bytes of the source and the
\* copy does not panic.
C30_AccumulateIntoEmptyBuffer ==
    /\ sha.pc # "panicked"
    /\ (/\ (sha.pc = "prime" \/
             (sha.pc = "stream" /\ sha.len > 0 /\ ~sha.st.new_digest))
         /\ ~(sha.st.curlen = 0 /\ sha.len > BLOCK_SIZE)) =>
           sha.st.curlen = 0

\* the streaming loop has copied the last bytes, fewer than a block, into
\* the buffer after two blocks were handed to the engine
C30_Witness ==
    /\ sha.pc = "stream"
    /\ Len(sha.ops) = 2
    /\ sha.len = 0
    /\ sha.st.curlen \in 1..(BLOCK_SIZE - 1)
    /\ SubSeq(sha.st.buf, 1, sha.st.curlen) =
          SubSeq(sha.data, 2 * BLOCK_SIZE + 1, Len(sha.data))

====
